---- MODULE Spec2Model ----
(***************************************************************************)
(* Disk-resident inverted index: builder (index_builder.py), document      *)
(* parser (parser.py), index reader (index_reader.py) and boolean-AND      *)
(* tf-idf query engine (search_engine.py).                                 *)
(*                                                                         *)
(* Numbers.  weighted_tf is a sum of the tag weights 1.0, 1.75, 2.0, 2.5,  *)
(* 3.0, 4.0, all multiples of 0.25, so it is kept exactly as an integer    *)
(* count of quarters.  avg_position is kept exactly as a reduced fraction  *)
(* <<numerator, denominator>>.  Logarithms, document lengths, idf values   *)
(* and scores are fixed-point numbers with three decimals (value * 1000).  *)
(*                                                                         *)
(* Text.  An HTML document is the sequence of its text nodes, each with    *)
(* the chain of enclosing tag names and its stemmed alphanumeric tokens    *)
(* (tokenising and stemming are done by nltk, outside the repository).     *)
(* A query string is the sequence of its stemmed tokens.                   *)
(***************************************************************************)
EXTENDS Integers, Sequences, FiniteSets, TLC

\* ------------------------------------------------------------------ bounds
MaxFiles == 3
MaxTopK == 3
MaxQueryLen == 2

\* ------------------------------------------------------- generic helpers
Max(a, b) == IF a >= b THEN a ELSE b

Range(s) == {s[i] : i \in 1..Len(s)}

RECURSIVE Gcd(_, _)
Gcd(a, b) == IF b = 0 THEN a ELSE Gcd(b, a % b)

RECURSIVE SumSeq(_)
SumSeq(s) == IF s = <<>> THEN 0 ELSE Head(s) + SumSeq(Tail(s))

\* 1000 * ln(n) for n = 1..64, rounded
LnTable ==
  << 0, 693, 1099, 1386, 1609, 1792, 1946, 2079, 2197, 2303, 2398, 2485,
     2565, 2639, 2708, 2773, 2833, 2890, 2944, 2996, 3045, 3091, 3135, 3178,
     3219, 3258, 3296, 3332, 3367, 3401, 3434, 3466, 3497, 3526, 3555, 3584,
     3611, 3638, 3664, 3689, 3714, 3738, 3761, 3784, 3807, 3829, 3850, 3871,
     3892, 3912, 3932, 3951, 3970, 3989, 4007, 4025, 4043, 4060, 4078, 4094,
     4111, 4127, 4143, 4159 >>

\* math.log(n / d) for integers n, d >= 1: n / d is one float, so equal
\* ratios give equal logarithms
Ln(n, d) == LET g == Gcd(n, d) IN LnTable[n \div g] - LnTable[d \div g]

RECURSIVE ISqrtBetween(_, _, _)
ISqrtBetween(n, lo, hi) ==
  IF lo >= hi THEN lo
  ELSE LET mid == (lo + hi + 1) \div 2
       IN IF mid * mid <= n THEN ISqrtBetween(n, mid, hi)
          ELSE ISqrtBetween(n, lo, mid - 1)

\* math.sqrt on three-decimal fixed point: 1000 * sqrt(x / 1000)
Sqrt(x) == ISqrtBetween(x * 1000, 0, 30000)

\* ---------------------------------------------------------------- parser
Terms == {"cat", "dog"}
\* every term of documents and queries, in the order sorted() gives
TermOrder == <<"cat", "dog", "zebra">>

\* DocumentParser.IMPORTANT_WEIGHTS, in dict order, weights in quarters
ImportantTags == <<"title", "h1", "h2", "h3", "strong", "b">>
IMPORTANT_WEIGHTS ==
  [tag \in Range(ImportantTags) |->
     CASE tag = "title" -> 16
       [] tag = "h1" -> 12
       [] tag = "h2" -> 10
       [] tag = "h3" -> 8
       [] tag = "strong" -> 7
       [] tag = "b" -> 7]
BASE_WEIGHT == 4

\* TokenStats()
NoStats == [weighted_tf |-> 0, raw_tf |-> 0, positions |-> <<>>]

\* parse's locals: stats (a dict: keys in insertion order) and position
EmptyParse == [keys |-> <<>>, stats |-> [t \in Terms |-> NoStats], position |-> 0]

\* process_text(text, boost)
RECURSIVE process_text(_, _, _)
process_text(ps, text, boost) ==
  IF text = <<>> THEN ps
  ELSE LET stem == Head(text)
           position == ps.position + 1
           old == ps.stats[stem]
           entry == [weighted_tf |-> old.weighted_tf + boost,
                     raw_tf |-> old.raw_tf + 1,
                     positions |-> Append(old.positions, position)]
           next == [keys |-> IF stem \in Range(ps.keys) THEN ps.keys
                             ELSE Append(ps.keys, stem),
                    stats |-> [ps.stats EXCEPT ![stem] = entry],
                    position |-> position]
       IN process_text(next, Tail(text), boost)

ParentName(node) == node.tags[Len(node.tags)]

\* first loop of parse: every visible text node at BASE_WEIGHT
RECURSIVE BasePass(_, _)
BasePass(ps, nodes) ==
  IF nodes = <<>> THEN ps
  ELSE LET node == Head(nodes)
       IN IF ParentName(node) \in {"script", "style", "noscript"}
          THEN BasePass(ps, Tail(nodes))
          ELSE BasePass(process_text(ps, node.text, BASE_WEIGHT), Tail(nodes))

\* soup.find_all(tag) of the second loop: the text below each such element
RECURSIVE BoostTag(_, _, _)
BoostTag(ps, nodes, tag) ==
  IF nodes = <<>> THEN ps
  ELSE LET node == Head(nodes)
       IN IF tag \in Range(node.tags)
          THEN BoostTag(process_text(ps, node.text, IMPORTANT_WEIGHTS[tag]),
                        Tail(nodes), tag)
          ELSE BoostTag(ps, Tail(nodes), tag)

\* second loop of parse: the important tags, in dict order
RECURSIVE BoostPass(_, _, _)
BoostPass(ps, nodes, tags) ==
  IF tags = <<>> THEN ps
  ELSE BoostPass(BoostTag(ps, nodes, Head(tags)), nodes, Tail(tags))

\* DocumentParser.parse(html)
parse(html) == BoostPass(BasePass(EmptyParse, html), html, ImportantTags)

\* --------------------------------------------------------------- corpus
\* <title>Cat</title><p>dog dog</p>
Doc0Html == << [tags |-> <<"html", "head", "title">>, text |-> <<"cat">>],
               [tags |-> <<"html", "body", "p">>, text |-> <<"dog", "dog">>] >>
\* <p>cat cat dog</p>
Doc1Html == << [tags |-> <<"html", "body", "p">>, text |-> <<"cat", "cat", "dog">>] >>
\* <script>cat</script><h1>dog <b>dog</b></h1>
Doc2Html == << [tags |-> <<"html", "head", "script">>, text |-> <<"cat">>],
               [tags |-> <<"html", "body", "h1">>, text |-> <<"dog">>],
               [tags |-> <<"html", "body", "h1", "b">>, text |-> <<"dog">>] >>
\* no content
EmptyHtml == <<>>

Htmls == {Doc0Html, Doc1Html, Doc2Html, EmptyHtml}
Urls == {"", "u0", "u1"}

\* what _load_document and payload["url"] can give for one corpus file
Payloads ==
  [kind : {"doc"}, url : Urls, html : Htmls]
    \cup {[kind |-> "unreadable", url |-> "", html |-> <<>>],
          [kind |-> "undecodable", url |-> "", html |-> <<>>],
          [kind |-> "nourl", url |-> "", html |-> <<>>]}

\* ------------------------------------------------ json text of the index
\* The artifacts are text: the postings storage is a sequence of characters,
\* numbers are written as decimal digits and read back from them.
DigitChars == <<"0", "1", "2", "3", "4", "5", "6", "7", "8", "9">>

RECURSIVE Digits(_)
Digits(n) ==
  IF n < 10 THEN <<DigitChars[n + 1]>>
  ELSE Append(Digits(n \div 10), DigitChars[(n % 10) + 1])

DigitSet == Range(DigitChars)
DigitValues == [c \in DigitSet |-> CHOOSE v \in 0..9 : DigitChars[v + 1] = c]

IsDigit(c) == c \in DigitSet
DigitVal(c) == DigitValues[c]

\* reads the number that starts at s[i]: its value and the index after it
RECURSIVE ParseNat(_, _, _)
ParseNat(s, i, acc) ==
  IF i <= Len(s) /\ IsDigit(s[i])
  THEN ParseNat(s, i + 1, 10 * acc + DigitVal(s[i]))
  ELSE [val |-> acc, next |-> i]

\* int(doc_id) of a json object key
IntOfKey(key) == ParseNat(key, 1, 0).val

\* DumpPosting with the raw_tf and weighted_tf values under each other's key
DumpPostingSwapped(posting) ==
  <<"{">> \o Digits(posting.doc_id) \o <<",">> \o Digits(posting.raw_tf)
    \o <<",">> \o Digits(posting.weighted_tf) \o <<",">>
    \o Digits(posting.avg_position[1]) \o <<"/">> \o Digits(posting.avg_position[2])
    \o <<"}">>

\* one posting object of postings_data
DumpPosting(posting) ==
  <<"{">> \o Digits(posting.doc_id) \o <<",">> \o Digits(posting.weighted_tf)
    \o <<",">> \o Digits(posting.raw_tf) \o <<",">>
    \o Digits(posting.avg_position[1]) \o <<"/">> \o Digits(posting.avg_position[2])
    \o <<"}">>

RECURSIVE DumpItems(_)
DumpItems(postings) ==
  IF postings = <<>> THEN <<>>
  ELSE IF Len(postings) = 1 THEN DumpPosting(postings[1])
  ELSE DumpPosting(Head(postings)) \o <<",">> \o DumpItems(Tail(postings))

\* json.dumps(postings_data)
JsonDumps(postings) == <<"[">> \o DumpItems(postings) \o <<"]">>

\* json.loads(postings_json) followed by the Posting(...) comprehension
RECURSIVE LoadItems(_, _, _)
LoadItems(s, i, acc) ==
  IF i > Len(s) \/ s[i] = "]" THEN acc
  ELSE IF s[i] = "{"
  THEN LET d == ParseNat(s, i + 1, 0)
           w == ParseNat(s, d.next + 1, 0)
           r == ParseNat(s, w.next + 1, 0)
           n == ParseNat(s, r.next + 1, 0)
           m == ParseNat(s, n.next + 1, 0)
       IN LoadItems(s, m.next + 1,
                    Append(acc, [doc_id |-> d.val, weighted_tf |-> w.val,
                                 raw_tf |-> r.val,
                                 avg_position |-> <<n.val, m.val>>]))
  ELSE LoadItems(s, i + 1, acc)

JsonLoads(s) == LoadItems(s, 1, <<>>)

\* size in characters of one lexicon line (term counted as one symbol)
LexiconLineSize(record) ==
  1 + Len(Digits(record.doc_freq)) + Len(Digits(record.offset))
    + Len(Digits(record.length)) + 1

\* ------------------------------------------------------------------ state
VARIABLES
  pc,               \* where build() is
  doc_id, files_processed, files_skipped, payload,      \* locals of build
  doc_lookup, doc_lengths, doc_seen_urls, postings,     \* IndexBuilder fields
  term_idx,         \* position of _write_index's loop over the sorted terms
  postings_file, lexicon_file, doc_lookup_file, doc_lengths_file, stats_file,
  write_log,        \* the opens for writing and the writes, in order
  lexicon_cache, reader_doc_lookup, reader_doc_lengths, reader_num_documents,
  file_loads,       \* how often the reader has read each metadata artifact
  ret,              \* the last reader / engine call and what it returned
  output_dir_exists,  \* the output directory is there
  corpus_root_error,  \* listing the corpus root has raised OSError
  \* two builds over one corpus tree, as far as _iter_corpus_files goes
  corpus_tree,      \* <<folder, file>> |-> the url of the file's payload
  build_no,         \* the build that is traversing: 1, then 2
  walk_pc,          \* where _iter_corpus_files is
  domain_folders,   \* the sorted folders not yet traversed
  pending,          \* the entries of the current folder not yet enumerated
  visited,          \* the files yielded so far, in order
  first_build,      \* the files the first build was given, in order
  \* callers of get_postings that share one IndexReader
  threads,          \* where each caller is in get_postings, and its locals
  cursors,          \* the position of every open file object
  average_call      \* a call of _average: its argument and what it returned

builder_vars == <<pc, doc_id, files_processed, files_skipped, payload,
                  doc_lookup, doc_lengths, doc_seen_urls, postings, term_idx>>
disk_vars == <<postings_file, lexicon_file, doc_lookup_file, doc_lengths_file,
               stats_file, write_log>>
reader_vars == <<lexicon_cache, reader_doc_lookup, reader_doc_lengths,
                 reader_num_documents, file_loads>>
env_vars == <<output_dir_exists, corpus_root_error>>
walk_vars == <<corpus_tree, build_no, walk_pc, domain_folders, pending, visited,
               first_build>>
thread_vars == <<threads, cursors>>
vars == <<builder_vars, disk_vars, reader_vars, ret, env_vars, walk_vars,
          thread_vars, average_call>>

EmptyDict == [k \in {} |-> 0]
NoPayload == [kind |-> "none", url |-> "", html |-> <<>>]
NotLoaded == [loaded |-> FALSE, value |-> EmptyDict]
NoLoads == [file \in {"lexicon.jsonl", "doc_lookup.json", "doc_lengths.json",
                       "stats.json"} |-> 0]
NoStatsFile == [num_documents |-> 0, num_unique_terms |-> 0, index_size_bytes |-> 0]
NoCall == [op |-> "none", query |-> <<>>, top_k |-> 0, term |-> "",
           results |-> <<>>, postings |-> <<>>, read_from |-> 0, read_len |-> 0,
           raised |-> FALSE, value |-> 0, lookups |-> 0]

\* no traversal is being followed
IdleWalk ==
  /\ corpus_tree = EmptyDict /\ build_no = 0 /\ walk_pc = "idle"
  /\ domain_folders = <<>> /\ pending = {} /\ visited = <<>>
  /\ first_build = <<>>

\* the callers that share the reader, and the file objects there can be:
\* one of each caller's own, and the reader's _postings_file_handle
Tids == {"t1", "t2"}
Handles == Tids \cup {"_postings_file_handle"}
IdleThread == [pc |-> "idle", term |-> "", lexicon |-> EmptyDict,
               handle |-> "", result |-> <<>>]

\* no caller is in get_postings
IdleThreads ==
  /\ threads = [t \in Tids |-> IdleThread]
  /\ cursors = [h \in Handles |-> 0]

\* IndexBuilder.__init__, an output directory that is empty or not there,
\* IndexReader.__init__
InitBuild ==
  /\ pc = "start"
  /\ output_dir_exists \in BOOLEAN /\ corpus_root_error = FALSE
  /\ doc_id = 0 /\ files_processed = 0 /\ files_skipped = 0
  /\ payload = NoPayload
  /\ doc_lookup = EmptyDict /\ doc_lengths = EmptyDict
  /\ doc_seen_urls = EmptyDict /\ postings = EmptyDict
  /\ term_idx = 0
  /\ postings_file = <<>> /\ lexicon_file = <<>>
  /\ doc_lookup_file = <<>> /\ doc_lengths_file = <<>>
  /\ stats_file = NoStatsFile
  /\ write_log = <<>>
  /\ lexicon_cache = NotLoaded /\ reader_doc_lookup = NotLoaded
  /\ reader_doc_lengths = NotLoaded
  /\ reader_num_documents = [loaded |-> FALSE, value |-> 0]
  /\ file_loads = NoLoads
  /\ ret = NoCall

\* no call of _average is being followed
NoAverage == [values |-> <<>>, returned |-> FALSE, result |-> <<0, 1>>]

Init == InitBuild /\ IdleWalk /\ IdleThreads /\ average_call = NoAverage

\* ---------------------------------------------------------------- builder
\* _average that answers 1.0 for no values instead of dividing 0.0 by 1
AverageOneForNone(values) ==
  IF values = <<>> THEN <<1, 1>>
  ELSE LET total == SumSeq(values)
           g == Gcd(total, Len(values))
       IN <<total \div g, Len(values) \div g>>

\* IndexBuilder._average
Average(values) ==
  LET total == SumSeq(values)
      count == Max(Len(values), 1)
      g == Gcd(total, count)
  IN <<total \div g, count \div g>>

\* term_tf = 1.0 + math.log(1.0 + stats.weighted_tf), squared
TermLength(weighted_tf) ==
  LET term_tf == 1000 + Ln(4 + weighted_tf, 4)
  IN (term_tf * term_tf) \div 1000

\* the floor of doc_lengths, 1e-9: the smallest positive fixed-point number
Epsilon == 1

\* self._postings[term].append(posting) for every term of token_stats
RECURSIVE AppendPostings(_, _, _, _)
AppendPostings(post, keys, stats, id) ==
  IF keys = <<>> THEN post
  ELSE LET term == Head(keys)
           posting == [doc_id |-> id,
                       weighted_tf |-> stats[term].weighted_tf,
                       raw_tf |-> stats[term].raw_tf,
                       avg_position |-> Average(stats[term].positions)]
           old == IF term \in DOMAIN post THEN post[term] ELSE <<>>
           next == [t \in DOMAIN post \cup {term} |->
                      IF t = term THEN Append(old, posting) ELSE post[t]]
       IN AppendPostings(next, Tail(keys), stats, id)

RECURSIVE LengthOf(_, _)
LengthOf(keys, stats) ==
  IF keys = <<>> THEN 0
  ELSE TermLength(stats[Head(keys)].weighted_tf) + LengthOf(Tail(keys), stats)

\* self.output_dir.mkdir(parents=True, exist_ok=True): a missing output
\* directory is created, an existing one is left alone
Mkdir ==
  /\ pc = "start"
  /\ output_dir_exists' = TRUE
  /\ pc' = "iter"
  /\ UNCHANGED <<doc_id, files_processed, files_skipped, payload, doc_lookup,
                 doc_lengths, doc_seen_urls, postings, term_idx, disk_vars,
                 reader_vars, ret, corpus_root_error, walk_vars, thread_vars,
                 average_call>>

\* _iter_corpus_files: self.corpus_root.iterdir() raises PermissionError or
\* another OSError; the generator prints the error and returns, so build's
\* loop is over without a file
CorpusRootUnreadable ==
  /\ pc = "iter" /\ files_processed = 0
  /\ corpus_root_error' = TRUE
  /\ pc' = "exhausted"
  /\ UNCHANGED <<doc_id, files_processed, files_skipped, payload, doc_lookup,
                 doc_lengths, doc_seen_urls, postings, term_idx, disk_vars,
                 reader_vars, ret, output_dir_exists, walk_vars, thread_vars,
                 average_call>>

\* SkipUnloadable with doc_id += 1 ahead of the continue
SkipUnloadableConsumesId ==
  /\ pc = "iter" /\ files_processed < MaxFiles
  /\ files_processed' = files_processed + 1
  /\ payload' = [kind |-> "unreadable", url |-> "", html |-> <<>>]
  /\ files_skipped' = files_skipped + 1
  /\ doc_id' = doc_id + 1
  /\ UNCHANGED <<env_vars, walk_vars, thread_vars, pc, doc_lookup, doc_lengths, doc_seen_urls, postings,
                 term_idx, disk_vars, reader_vars, ret,
                 average_call>>

\* one iteration of build's loop: _load_document returned None (the file
\* could not be opened or read, or its text is not JSON)
SkipUnloadable ==
  /\ pc = "iter" /\ files_processed < MaxFiles
  /\ files_processed' = files_processed + 1
  /\ payload' = [kind |-> "unreadable", url |-> "", html |-> <<>>]
  /\ files_skipped' = files_skipped + 1
  /\ UNCHANGED <<env_vars, walk_vars, thread_vars, pc, doc_id, doc_lookup, doc_lengths, doc_seen_urls, postings,
                 term_idx, disk_vars, reader_vars, ret,
                 average_call>>

\* one iteration: the payload has no "url" key, payload["url"] raises KeyError
\* and build() ends there
CrashMissingUrl ==
  /\ pc = "iter" /\ files_processed < MaxFiles
  /\ files_processed' = files_processed + 1
  /\ payload' = [kind |-> "nourl", url |-> "", html |-> <<>>]
  /\ pc' = "crashed"
  /\ UNCHANGED <<env_vars, walk_vars, thread_vars, doc_id, files_skipped, doc_lookup, doc_lengths, doc_seen_urls,
                 postings, term_idx, disk_vars, reader_vars, ret,
                 average_call>>

\* one iteration: the file's bytes are not UTF-8; json.load raises
\* UnicodeDecodeError, which _load_document does not catch, and build()
\* ends there
CrashUndecodable ==
  /\ pc = "iter" /\ files_processed < MaxFiles
  /\ files_processed' = files_processed + 1
  /\ payload' = [kind |-> "undecodable", url |-> "", html |-> <<>>]
  /\ pc' = "crashed"
  /\ UNCHANGED <<env_vars, walk_vars, thread_vars, doc_id, files_skipped, doc_lookup, doc_lengths, doc_seen_urls,
                 postings, term_idx, disk_vars, reader_vars, ret,
                 average_call>>

\* SkipDuplicate with the duplicate taking a doc_id and the URL's lookup entry
SkipDuplicateConsumesId ==
  /\ pc = "iter" /\ files_processed < MaxFiles
  /\ \E p \in Payloads :
       /\ p.kind = "doc" /\ p.url \in DOMAIN doc_seen_urls
       /\ payload' = p
       /\ doc_lookup' = doc_lookup @@ (doc_id :> p.url)
       /\ doc_lengths' = doc_lengths @@ (doc_id :> Epsilon)
  /\ files_processed' = files_processed + 1
  /\ doc_id' = doc_id + 1
  /\ UNCHANGED <<env_vars, walk_vars, thread_vars, pc, files_skipped, doc_seen_urls, postings,
                 term_idx, disk_vars, reader_vars, ret,
                 average_call>>

\* one iteration: the URL was already seen
SkipDuplicate ==
  /\ pc = "iter" /\ files_processed < MaxFiles
  /\ \E p \in Payloads :
       /\ p.kind = "doc" /\ p.url \in DOMAIN doc_seen_urls
       /\ payload' = p
  /\ files_processed' = files_processed + 1
  /\ files_skipped' = files_skipped + 1
  /\ UNCHANGED <<env_vars, walk_vars, thread_vars, pc, doc_id, doc_lookup, doc_lengths, doc_seen_urls, postings,
                 term_idx, disk_vars, reader_vars, ret,
                 average_call>>

\* one iteration: a new URL is indexed
IndexDocument ==
  /\ pc = "iter" /\ files_processed < MaxFiles
  /\ \E p \in Payloads :
       /\ p.kind = "doc" /\ p.url \notin DOMAIN doc_seen_urls
       /\ payload' = p
       /\ doc_lookup' = doc_lookup @@ (doc_id :> p.url)
       /\ doc_seen_urls' = doc_seen_urls @@ (p.url :> doc_id)
       /\ LET token_stats == parse(p.html)
          IN /\ postings' = AppendPostings(postings, token_stats.keys,
                                           token_stats.stats, doc_id)
             /\ doc_lengths' = doc_lengths @@
                  (doc_id :> Max(LengthOf(token_stats.keys, token_stats.stats),
                                 Epsilon))
  /\ files_processed' = files_processed + 1
  /\ doc_id' = doc_id + 1
  /\ UNCHANGED <<env_vars, walk_vars, thread_vars, pc, files_skipped, term_idx, disk_vars, reader_vars, ret, average_call>>

\* sorted(self._postings.keys())
SortedTerms(post) == SelectSeq(TermOrder, LAMBDA t : t \in DOMAIN post)

\* list.sort(key=doc_id): stable insertion sort
RECURSIVE InsertByDocId(_, _)
InsertByDocId(sorted, posting) ==
  IF sorted = <<>> THEN <<posting>>
  ELSE IF sorted[Len(sorted)].doc_id <= posting.doc_id
  THEN Append(sorted, posting)
  ELSE Append(InsertByDocId(SubSeq(sorted, 1, Len(sorted) - 1), posting),
              sorted[Len(sorted)])

\* postings.sort(key=doc_id, reverse=True): the block in descending order
SortByDocIdReversed(ps) == [i \in 1..Len(ps) |-> ps[Len(ps) + 1 - i]]

RECURSIVE SortByDocId(_)
SortByDocId(ps) ==
  IF ps = <<>> THEN <<>>
  ELSE InsertByDocId(SortByDocId(SubSeq(ps, 1, Len(ps) - 1)), ps[Len(ps)])

\* the corpus iterator is exhausted; _write_index opens its two files
BeginWriteIndex ==
  /\ pc \in {"iter", "exhausted"}
  /\ pc' = "write_index"
  /\ term_idx' = 1
  /\ lexicon_file' = <<>> /\ postings_file' = <<>>
  /\ write_log' = write_log \o <<"open lexicon.jsonl", "open postings.jsonl">>
  /\ UNCHANGED <<env_vars, walk_vars, thread_vars, doc_id, files_processed, files_skipped, payload, doc_lookup,
                 doc_lengths, doc_seen_urls, postings, doc_lookup_file,
                 doc_lengths_file, stats_file, reader_vars, ret,
                 average_call>>

\* _write_index writing a term's lexicon record ahead of its postings block
WriteTermRecordFirst ==
  /\ pc = "write_index" /\ term_idx <= Len(SortedTerms(postings))
  /\ LET term == SortedTerms(postings)[term_idx]
         sorted == SortByDocId(postings[term])
         doc_freq == Len(sorted)
         postings_json == JsonDumps(sorted)
         offset == Len(postings_file)
         written == postings_file \o postings_json \o <<"\n">>
         length == Len(written) - offset
     IN /\ postings' = [postings EXCEPT ![term] = sorted]
        /\ postings_file' = written
        /\ lexicon_file' = Append(lexicon_file,
                                  [term |-> term, doc_freq |-> doc_freq,
                                   offset |-> offset, length |-> length])
  /\ write_log' = write_log \o <<"lexicon.jsonl", "postings.jsonl">>
  /\ term_idx' = term_idx + 1
  /\ UNCHANGED <<env_vars, walk_vars, thread_vars, pc, doc_id, files_processed, files_skipped, payload,
                 doc_lookup, doc_lengths, doc_seen_urls, doc_lookup_file,
                 doc_lengths_file, stats_file, reader_vars, ret,
                 average_call>>

\* one iteration of _write_index's loop
WriteTerm ==
  /\ pc = "write_index" /\ term_idx <= Len(SortedTerms(postings))
  /\ LET term == SortedTerms(postings)[term_idx]
         sorted == SortByDocId(postings[term])
         doc_freq == Len(sorted)
         postings_json == JsonDumps(sorted)
         offset == Len(postings_file)
         written == postings_file \o postings_json \o <<"\n">>
         length == Len(written) - offset
     IN /\ postings' = [postings EXCEPT ![term] = sorted]
        /\ postings_file' = written
        /\ lexicon_file' = Append(lexicon_file,
                                  [term |-> term, doc_freq |-> doc_freq,
                                   offset |-> offset, length |-> length])
  /\ write_log' = write_log \o <<"postings.jsonl", "lexicon.jsonl">>
  /\ term_idx' = term_idx + 1
  /\ UNCHANGED <<env_vars, walk_vars, thread_vars, pc, doc_id, files_processed, files_skipped, payload,
                 doc_lookup, doc_lengths, doc_seen_urls, doc_lookup_file,
                 doc_lengths_file, stats_file, reader_vars, ret,
                 average_call>>

\* the loop is over, both files are closed, _write_metadata starts
EndWriteIndex ==
  /\ pc = "write_index" /\ term_idx > Len(SortedTerms(postings))
  /\ pc' = "write_doc_lookup"
  /\ UNCHANGED <<env_vars, walk_vars, thread_vars, doc_id, files_processed, files_skipped, payload, doc_lookup,
                 doc_lengths, doc_seen_urls, postings, term_idx, disk_vars,
                 reader_vars, ret,
                 average_call>>

\* the keys of a doc_id-keyed dict in iteration order: insertion order, and
\* build inserts ascending doc_ids only
RECURSIVE DictOrder(_)
DictOrder(keys) ==
  IF keys = {} THEN <<>>
  ELSE LET m == CHOOSE x \in keys : \A y \in keys : y <= x
       IN Append(DictOrder(keys \ {m}), m)

\* json.dumps of a dict with integer keys: the keys become strings
RECURSIVE DumpItemsOf(_, _)
DumpItemsOf(dict, keys) ==
  IF keys = <<>> THEN <<>>
  ELSE <<(<<Digits(Head(keys)), dict[Head(keys)]>>)>> \o DumpItemsOf(dict, Tail(keys))

DumpDict(dict) == DumpItemsOf(dict, DictOrder(DOMAIN dict))

\* doc_lookup_path.write_text(json.dumps(self.doc_lookup))
WriteDocLookup ==
  /\ pc = "write_doc_lookup"
  /\ doc_lookup_file' = DumpDict(doc_lookup)
  /\ write_log' = Append(write_log, "doc_lookup.json")
  /\ pc' = "write_doc_lengths"
  /\ UNCHANGED <<env_vars, walk_vars, thread_vars, doc_id, files_processed, files_skipped, payload, doc_lookup,
                 doc_lengths, doc_seen_urls, postings, term_idx, postings_file,
                 lexicon_file, doc_lengths_file, stats_file, reader_vars, ret,
                 average_call>>

\* doc_lengths_path.write_text(json.dumps(self.doc_lengths))
WriteDocLengths ==
  /\ pc = "write_doc_lengths"
  /\ doc_lengths_file' = DumpDict(doc_lengths)
  /\ write_log' = Append(write_log, "doc_lengths.json")
  /\ pc' = "write_stats"
  /\ UNCHANGED <<env_vars, walk_vars, thread_vars, doc_id, files_processed, files_skipped, payload, doc_lookup,
                 doc_lengths, doc_seen_urls, postings, term_idx, postings_file,
                 lexicon_file, doc_lookup_file, stats_file, reader_vars, ret,
                 average_call>>

RECURSIVE DictFileSize(_)
DictFileSize(file) ==
  IF file = <<>> THEN 0 ELSE Len(Head(file)[1]) + 2 + DictFileSize(Tail(file))

RECURSIVE LexiconFileSize(_)
LexiconFileSize(file) ==
  IF file = <<>> THEN 0 ELSE LexiconLineSize(Head(file)) + LexiconFileSize(Tail(file))

\* the stats dict and stats_path.write_text; build() returns
WriteStats ==
  /\ pc = "write_stats"
  /\ stats_file' =
       [num_documents |-> Cardinality(DOMAIN doc_lookup),
        num_unique_terms |-> Len(lexicon_file),
        index_size_bytes |-> LexiconFileSize(lexicon_file) + Len(postings_file)
                             + DictFileSize(doc_lookup_file)
                             + DictFileSize(doc_lengths_file)]
  /\ write_log' = Append(write_log, "stats.json")
  /\ pc' = "done"
  \* build's locals end with the call
  /\ doc_id' = 0 /\ files_processed' = 0 /\ files_skipped' = 0
  /\ payload' = NoPayload /\ term_idx' = 0
  /\ UNCHANGED <<env_vars, walk_vars, thread_vars, doc_lookup, doc_lengths, doc_seen_urls, postings, postings_file,
                 lexicon_file, doc_lookup_file, doc_lengths_file, reader_vars, ret,
                 average_call>>

\* ----------------------------------------------------------------- reader
\* the dict built by _load_lexicon's loop: a later line replaces an earlier one
RECURSIVE LexiconOfLines(_)
LexiconOfLines(lines) ==
  IF lines = <<>> THEN EmptyDict
  ELSE LET entry == lines[Len(lines)]
       IN (entry.term :> entry) @@ LexiconOfLines(SubSeq(lines, 1, Len(lines) - 1))

\* {int(doc_id): value for doc_id, value in data.items()}
RECURSIVE DictOfFile(_)
DictOfFile(file) ==
  IF file = <<>> THEN EmptyDict
  ELSE LET item == file[Len(file)]
       IN (IntOfKey(item[1]) :> item[2]) @@ DictOfFile(SubSeq(file, 1, Len(file) - 1))

\* `if self._lexicon_cache:`, which takes an empty dict for no cache
IsCachedTruthy(cache) == cache.loaded /\ cache.value # EmptyDict

\* `if self._lexicon_cache is not None`, and the same for the other dicts
IsCached(cache) == cache.loaded

\* IndexReader._load_lexicon: the cache when there is one, else the file
load_lexicon == IF IsCached(lexicon_cache) THEN lexicon_cache.value
                ELSE LexiconOfLines(lexicon_file)

\* IndexReader._load_doc_lookup
load_doc_lookup == IF IsCached(reader_doc_lookup) THEN reader_doc_lookup.value
                   ELSE DictOfFile(doc_lookup_file)

\* _load_doc_lengths whose cached dict still has the json string keys, so
\* that no integer doc_id is found in it
load_doc_lengths_string_keys ==
  IF reader_doc_lengths.loaded THEN EmptyDict ELSE DictOfFile(doc_lengths_file)

\* IndexReader._load_doc_lengths
load_doc_lengths == IF IsCached(reader_doc_lengths) THEN reader_doc_lengths.value
                    ELSE DictOfFile(doc_lengths_file)

\* IndexReader.get_num_documents
get_num_documents == IF reader_num_documents.loaded THEN reader_num_documents.value
                     ELSE stats_file.num_documents

Loaded(v) == [loaded |-> TRUE, value |-> v]

\* the artifacts a call reads from disk: those it needs and has not cached
Needed(lexicon, lookup, lengths, stats) ==
  {file \in DOMAIN file_loads :
     \/ file = "lexicon.jsonl" /\ lexicon /\ ~IsCached(lexicon_cache)
     \/ file = "doc_lookup.json" /\ lookup /\ ~IsCached(reader_doc_lookup)
     \/ file = "doc_lengths.json" /\ lengths /\ ~IsCached(reader_doc_lengths)
     \/ file = "stats.json" /\ stats /\ ~reader_num_documents.loaded}

CountLoads(files) ==
  [file \in DOMAIN file_loads |->
     file_loads[file] + (IF file \in files THEN 1 ELSE 0)]

\* f.seek(offset); f.readline(): the characters up to and including "\n"
RECURSIVE LineEnd(_, _)
LineEnd(file, offset) ==
  IF offset >= Len(file) THEN offset
  ELSE IF file[offset + 1] = "\n" THEN offset + 1
  ELSE LineEnd(file, offset + 1)

ReadLine(file, offset) == SubSeq(file, offset + 1, LineEnd(file, offset))

\* postings_json.rstrip('\n\r')
RECURSIVE RStrip(_)
RStrip(line) ==
  IF line # <<>> /\ line[Len(line)] \in {"\n", "\r"}
  THEN RStrip(SubSeq(line, 1, Len(line) - 1))
  ELSE line

\* IndexReader.get_postings(term): the postings and the characters consumed
get_postings(term) ==
  LET lexicon == load_lexicon
  IN IF term \notin DOMAIN lexicon
     THEN [postings |-> <<>>, read_from |-> 0, read_len |-> 0]
     ELSE LET entry == lexicon[term]
              line == ReadLine(postings_file, entry.offset)
          IN [postings |-> JsonLoads(RStrip(line)),
              read_from |-> entry.offset, read_len |-> Len(line)]

\* IndexReader.get_doc_freq(term)
get_doc_freq(term) ==
  LET lexicon == load_lexicon
  IN IF term \notin DOMAIN lexicon THEN 0 ELSE lexicon[term].doc_freq

\* IndexReader.get_doc_length(doc_id): 1.0 when absent
get_doc_length(id) ==
  LET lengths == load_doc_lengths
  IN IF id \in DOMAIN lengths THEN lengths[id] ELSE 1000

\* compute_idf without the doc_freq == 0 return: ZeroDivisionError
compute_idf_unguarded(term) ==
  LET doc_freq == get_doc_freq(term)
      num_docs == get_num_documents
  IN IF doc_freq = 0 \/ num_docs <= 0 THEN [raised |-> TRUE, value |-> 0]
     ELSE [raised |-> FALSE, value |-> Ln(num_docs, doc_freq)]

\* compute_idf with the smoothed formula ln(1 + N / df)
compute_idf_smoothed(term) ==
  LET doc_freq == get_doc_freq(term)
  IN IF doc_freq = 0 THEN [raised |-> FALSE, value |-> 0]
     ELSE [raised |-> FALSE, value |-> Ln(doc_freq + get_num_documents, doc_freq)]

\* IndexReader.compute_idf(term); math.log raises ValueError below 1 document
compute_idf(term) ==
  LET doc_freq == get_doc_freq(term)
  IN IF doc_freq = 0 THEN [raised |-> FALSE, value |-> 0]
     ELSE LET num_docs == get_num_documents
          IN IF num_docs <= 0 THEN [raised |-> TRUE, value |-> 0]
             ELSE [raised |-> FALSE, value |-> Ln(num_docs, doc_freq)]

\* ----------------------------------------------------------- query engine
QueryTerms == Range(TermOrder)
Queries == UNION {[1..n -> QueryTerms] : n \in 0..MaxQueryLen}
TopKs == (0 - 1)..MaxTopK

DocIds(ps) == {ps[i].doc_id : i \in 1..Len(ps)}

\* the keys of term_postings: the distinct query terms, first occurrence first
RECURSIVE DictKeys(_)
DictKeys(query_terms) ==
  IF query_terms = <<>> THEN <<>>
  ELSE LET rest == DictKeys(SubSeq(query_terms, 1, Len(query_terms) - 1))
           term == query_terms[Len(query_terms)]
       IN IF term \in Range(rest) THEN rest ELSE Append(rest, term)

\* the term_postings dict that search has filled when its loop ends
RECURSIVE PostingsOfTerms(_)
PostingsOfTerms(term_list) ==
  IF term_list = <<>> THEN EmptyDict
  ELSE (Head(term_list) :> get_postings(Head(term_list)).postings)
         @@ PostingsOfTerms(Tail(term_list))

TermPostings(query_terms) == PostingsOfTerms(DictKeys(query_terms))

\* _boolean_and without its loop over term_list[1:]: the documents of the
\* first term
boolean_and_first_term(term_postings, term_list) ==
  IF term_list = <<>> THEN {} ELSE DocIds(term_postings[term_list[1]])

\* SearchEngine._boolean_and(term_postings), term_list being the dict's keys
RECURSIVE boolean_and(_, _)
boolean_and(term_postings, term_list) ==
  IF term_list = <<>> THEN {}
  ELSE IF Len(term_list) = 1 THEN DocIds(term_postings[term_list[1]])
  ELSE boolean_and(term_postings, SubSeq(term_list, 1, Len(term_list) - 1))
         \cap DocIds(term_postings[term_list[Len(term_list)]])

\* iteration over a set of doc ids: CPython hashes an int to itself and a
\* set has at least 8 slots, so ids below 8 come out in ascending order
RECURSIVE SetIter(_)
SetIter(S) ==
  IF S = {} THEN <<>>
  ELSE LET m == CHOOSE x \in S : \A y \in S : x <= y
       IN <<m>> \o SetIter(S \ {m})

\* term_posting_maps[term].get(doc_id): a later posting replaces an earlier one
PostingFor(postings_of_term, id) ==
  LET ps == postings_of_term
      hits == {i \in 1..Len(ps) : ps[i].doc_id = id}
  IN IF hits = {} THEN [found |-> FALSE, posting |-> NoStats]
     ELSE [found |-> TRUE,
           posting |-> ps[CHOOSE i \in hits : \A j \in hits : j <= i]]

\* the inner loop of _score_documents for one document
RECURSIVE ScoreOf(_, _, _, _, _)
ScoreOf(id, doc_length, term_postings, term_idfs, query_terms) ==
  IF query_terms = <<>> THEN 0
  ELSE LET term == Head(query_terms)
           hit == PostingFor(term_postings[term], id)
           normalized_tf ==
             IF doc_length > 0
             THEN (hit.posting.weighted_tf * 250 * 1000) \div Sqrt(doc_length)
             ELSE hit.posting.weighted_tf * 250
           idf == term_idfs[term]
       IN (IF hit.found THEN (normalized_tf * idf) \div 1000 ELSE 0)
            + ScoreOf(id, doc_length, term_postings, term_idfs, Tail(query_terms))

\* SearchEngine._score_documents: a result only for a truthy url
RECURSIVE ScoreLoop(_, _, _, _, _)
ScoreLoop(candidates, lookup, term_postings, term_idfs, query_terms) ==
  IF candidates = <<>> THEN <<>>
  ELSE LET id == Head(candidates)
           rest == ScoreLoop(Tail(candidates), lookup, term_postings, term_idfs,
                             query_terms)
       IN IF id \in DOMAIN lookup /\ lookup[id] # ""
          THEN <<[doc_id |-> id, url |-> lookup[id],
                  score |-> ScoreOf(id, get_doc_length(id), term_postings,
                                    term_idfs, query_terms)]>> \o rest
          ELSE rest

\* term_idfs[term] = self.reader.compute_idf(term) for term in query_terms
RECURSIVE IdfsOfTerms(_)
IdfsOfTerms(term_list) ==
  IF term_list = <<>> THEN EmptyDict
  ELSE (Head(term_list) :> compute_idf(Head(term_list)).value)
         @@ IdfsOfTerms(Tail(term_list))

\* _score_documents whose inner loop runs over the distinct query terms (the
\* keys of term_postings), so that a repeated term scores once
score_documents_distinct_terms(candidate_docs, term_postings, query_terms) ==
  LET term_idfs == IdfsOfTerms(DictKeys(query_terms))
  IN ScoreLoop(SetIter(candidate_docs), load_doc_lookup, term_postings,
               term_idfs, DictKeys(query_terms))

\* SearchEngine._score_documents
score_documents(candidate_docs, term_postings, query_terms) ==
  LET term_idfs == IdfsOfTerms(DictKeys(query_terms))
  IN ScoreLoop(SetIter(candidate_docs), load_doc_lookup, term_postings,
               term_idfs, query_terms)

\* list.sort(key=score, reverse=True): stable, equal scores keep their order
RECURSIVE InsertByScore(_, _)
InsertByScore(sorted, r) ==
  IF sorted = <<>> THEN <<r>>
  ELSE IF sorted[Len(sorted)].score >= r.score
  THEN Append(sorted, r)
  ELSE Append(InsertByScore(SubSeq(sorted, 1, Len(sorted) - 1), r),
              sorted[Len(sorted)])

RECURSIVE SortByScore(_)
SortByScore(rs) ==
  IF rs = <<>> THEN <<>>
  ELSE InsertByScore(SortByScore(SubSeq(rs, 1, Len(rs) - 1)), rs[Len(rs)])

\* scored_results[:top_k]
Slice(rs, top_k) ==
  IF top_k >= 0
  THEN SubSeq(rs, 1, IF top_k < Len(rs) THEN top_k ELSE Len(rs))
  ELSE SubSeq(rs, 1, Len(rs) + top_k)

\* the get_postings calls of search's loop over the query terms, which
\* returns at the first term without postings
RECURSIVE Lookups(_, _)
Lookups(term_postings, query_terms) ==
  IF query_terms = <<>> THEN 0
  ELSE IF term_postings[Head(query_terms)] = <<>> THEN 1
  ELSE 1 + Lookups(term_postings, Tail(query_terms))

\* an exception of compute_idf leaves _score_documents and search
ScoringRaises(query_terms) ==
  \E term \in Range(query_terms) : compute_idf(term).raised

\* SearchEngine.search from the postings its loop fetches for the query's
\* terms up to the sort
RankPostings(term_postings, query_terms) ==
  IF query_terms = <<>>
  THEN [results |-> <<>>, stage |-> "no_terms", lookups |-> 0, raised |-> FALSE]
  ELSE IF \E term \in Range(query_terms) : term_postings[term] = <<>>
  THEN [results |-> <<>>, stage |-> "no_postings",
        lookups |-> Lookups(term_postings, query_terms), raised |-> FALSE]
  ELSE LET candidate_docs == boolean_and(term_postings, DictKeys(query_terms))
       IN IF candidate_docs = {}
          THEN [results |-> <<>>, stage |-> "no_candidates",
                lookups |-> Len(query_terms), raised |-> FALSE]
          ELSE IF ScoringRaises(query_terms)
          THEN [results |-> <<>>, stage |-> "scored",
                lookups |-> Len(query_terms), raised |-> TRUE]
          ELSE [results |-> SortByScore(score_documents(candidate_docs,
                                          term_postings, query_terms)),
                stage |-> "scored", lookups |-> Len(query_terms),
                raised |-> FALSE]

\* search whose loop goes on to the next term (continue) when a term has no
\* postings, and answers from the terms that have some
RankedSkipsEmptyTerms(query_terms) ==
  IF query_terms = <<>>
  THEN [results |-> <<>>, stage |-> "no_terms", lookups |-> 0, raised |-> FALSE]
  ELSE LET kept == SelectSeq(query_terms,
                             LAMBDA t : get_postings(t).postings # <<>>)
           term_postings == TermPostings(kept)
           candidate_docs == boolean_and(term_postings, DictKeys(kept))
       IN IF candidate_docs = {}
          THEN [results |-> <<>>, stage |-> "no_candidates",
                lookups |-> Len(query_terms), raised |-> FALSE]
          ELSE [results |-> SortByScore(score_documents(candidate_docs,
                                          term_postings, kept)),
                stage |-> "scored", lookups |-> Len(query_terms),
                raised |-> FALSE]

\* SearchEngine.search up to the sort: the sorted results, how far it got,
\* the postings lookups it made and whether it raised
Ranked(query_terms) == RankPostings(TermPostings(query_terms), query_terms)

\* SearchEngine.search(query, top_k)
search(query_terms, top_k) == Slice(Ranked(query_terms).results, top_k)

\* a call of search on the built index, with the caches it loads on the way
Search ==
  /\ pc = "done" /\ ret = NoCall
  /\ \E query_terms \in Queries :
       \E out \in {Ranked(query_terms)} :
          /\ \E top_k \in TopKs :
               ret' = [NoCall EXCEPT !.op = "search", !.query = query_terms,
                                     !.top_k = top_k,
                                     !.results = Slice(out.results, top_k),
                                     !.lookups = out.lookups,
                                     !.raised = out.raised]
          /\ lexicon_cache' = IF out.lookups = 0 THEN lexicon_cache
                              ELSE Loaded(load_lexicon)
          /\ file_loads' = CountLoads(Needed(out.lookups > 0,
                 out.stage = "scored", out.stage = "scored", out.stage = "scored"))
          /\ IF out.stage = "scored"
             THEN /\ reader_doc_lookup' = Loaded(load_doc_lookup)
                  /\ reader_doc_lengths' = Loaded(load_doc_lengths)
                  /\ reader_num_documents' = Loaded(get_num_documents)
             ELSE UNCHANGED <<reader_doc_lookup, reader_doc_lengths,
                              reader_num_documents>>
  /\ UNCHANGED <<env_vars, walk_vars, thread_vars, builder_vars, disk_vars, average_call>>

\* a call of IndexReader.get_postings on the built index
GetPostings ==
  /\ pc = "done" /\ ret = NoCall
  /\ \E term \in QueryTerms :
       LET out == get_postings(term)
       IN ret' = [NoCall EXCEPT !.op = "get_postings", !.term = term,
                                !.postings = out.postings,
                                !.read_from = out.read_from,
                                !.read_len = out.read_len]
  /\ lexicon_cache' = Loaded(load_lexicon)
  /\ file_loads' = CountLoads(Needed(TRUE, FALSE, FALSE, FALSE))
  /\ UNCHANGED <<env_vars, walk_vars, thread_vars, builder_vars, disk_vars, reader_doc_lookup,
                 reader_doc_lengths, reader_num_documents,
                 average_call>>

\* a call of IndexReader.compute_idf on the built index
ComputeIdf ==
  /\ pc = "done" /\ ret = NoCall
  /\ \E term \in QueryTerms :
       LET out == compute_idf(term)
       IN /\ ret' = [NoCall EXCEPT !.op = "compute_idf", !.term = term,
                                   !.raised = out.raised, !.value = out.value]
          /\ reader_num_documents' =
               IF get_doc_freq(term) = 0 THEN reader_num_documents
               ELSE Loaded(get_num_documents)
          /\ file_loads' = CountLoads(Needed(TRUE, FALSE, FALSE,
                                             get_doc_freq(term) # 0))
  /\ lexicon_cache' = Loaded(load_lexicon)
  /\ UNCHANGED <<env_vars, walk_vars, thread_vars, builder_vars, disk_vars, reader_doc_lookup, reader_doc_lengths, average_call>>

\* SearchEngine(index_dir) again: a fresh IndexReader with empty caches
NewReader ==
  /\ pc = "done"
  /\ lexicon_cache.loaded
  /\ lexicon_cache' = NotLoaded /\ reader_doc_lookup' = NotLoaded
  /\ reader_doc_lengths' = NotLoaded
  /\ reader_num_documents' = [loaded |-> FALSE, value |-> 0]
  /\ file_loads' = NoLoads
  /\ UNCHANGED <<env_vars, walk_vars, thread_vars, builder_vars, disk_vars, ret, average_call>>

\* the caller is done with what the call returned (it printed the results)
\* and goes round its loop
Discard ==
  /\ pc = "done" /\ ret # NoCall
  /\ ret' = NoCall
  /\ UNCHANGED <<env_vars, walk_vars, thread_vars, builder_vars, disk_vars, reader_vars, average_call>>

Next ==
  \/ Mkdir \/ CorpusRootUnreadable
  \/ SkipUnloadable \/ CrashUndecodable \/ CrashMissingUrl \/ SkipDuplicate \/ IndexDocument
  \/ BeginWriteIndex \/ WriteTerm \/ EndWriteIndex
  \/ WriteDocLookup \/ WriteDocLengths \/ WriteStats
  \/ Search \/ GetPostings \/ ComputeIdf \/ NewReader \/ Discard

Spec == Init /\ [][Next]_vars

\* ------------------------------------------------- the corpus traversal
\* IndexBuilder._iter_corpus_files over a corpus tree of domain folders
\* holding json files, for two builds, the second after the first. The file
\* system hands out the entries of a directory in any order.
FilesPerFolder == 2

\* the folder names, in the order of their names
FolderNames == <<"aiclub_ics_uci_edu", "www_ics_uci_edu">>
FileNames == 1..FilesPerFolder
WalkUrls == {"u0", "u1"}
CorpusFiles == Range(FolderNames) \X FileNames

\* the orders in which iterdir() can yield the members of a directory
Enumerations(entries) ==
  {order \in [1..Cardinality(entries) -> entries] : Range(order) = entries}

\* domain_folders.sort(key=lambda x: x.name)
SortByName(order) == SelectSeq(FolderNames, LAMBDA name : name \in Range(order))

\* build's loop over the files it is given, as far as URLs and doc_ids go:
\* the doc_id of every URL and the file it was indexed from
RECURSIVE SeenUrls(_, _)
SeenUrls(files, tree) ==
  IF files = <<>> THEN EmptyDict
  ELSE LET seen == SeenUrls(SubSeq(files, 1, Len(files) - 1), tree)
           file == files[Len(files)]
           url == tree[file]
       IN IF url \in DOMAIN seen THEN seen
          ELSE seen @@ (url :> [doc_id |-> Cardinality(DOMAIN seen), file |-> file])

InitTraversal ==
  /\ InitBuild /\ IdleThreads /\ average_call = NoAverage
  /\ corpus_tree \in [CorpusFiles -> WalkUrls]
  /\ build_no = 1 /\ walk_pc = "list"
  /\ domain_folders = <<>> /\ pending = {} /\ visited = <<>>
  /\ first_build = <<>>

\* corpus_root.iterdir() in whatever order, then the sort by name
ListRoot ==
  /\ walk_pc = "list"
  /\ \E order \in Enumerations(Range(FolderNames)) :
       domain_folders' = SortByName(order)
  /\ walk_pc' = "folder"
  /\ UNCHANGED <<builder_vars, disk_vars, reader_vars, ret, env_vars, thread_vars,
                 corpus_tree, build_no, pending, visited, first_build,
                 average_call>>

\* for folder in selected_folders: folder.iterdir() starts
OpenFolder ==
  /\ walk_pc = "folder" /\ domain_folders # <<>>
  /\ pending' = {file \in CorpusFiles : file[1] = Head(domain_folders)}
  /\ walk_pc' = "files"
  /\ UNCHANGED <<builder_vars, disk_vars, reader_vars, ret, env_vars, thread_vars,
                 corpus_tree, build_no, domain_folders, visited, first_build,
                 average_call>>

\* for filename in folder.iterdir(): yield filename, the next entry being
\* whichever the file system enumerates next
YieldFile ==
  /\ walk_pc = "files"
  /\ \E file \in pending :
       /\ visited' = Append(visited, file)
       /\ pending' = pending \ {file}
  /\ UNCHANGED <<builder_vars, disk_vars, reader_vars, ret, env_vars, thread_vars,
                 corpus_tree, build_no, walk_pc, domain_folders, first_build,
                 average_call>>

\* the folder's iterdir() is exhausted
CloseFolder ==
  /\ walk_pc = "files" /\ pending = {}
  /\ domain_folders' = Tail(domain_folders)
  /\ walk_pc' = "folder"
  /\ UNCHANGED <<builder_vars, disk_vars, reader_vars, ret, env_vars, thread_vars,
                 corpus_tree, build_no, pending, visited, first_build,
                 average_call>>

\* the generator is exhausted: the build has been given all its files, and
\* the second build starts after the first
EndTraversal ==
  /\ walk_pc = "folder" /\ domain_folders = <<>>
  /\ IF build_no = 1
     THEN /\ first_build' = visited /\ visited' = <<>>
          /\ build_no' = 2 /\ walk_pc' = "list"
     ELSE /\ walk_pc' = "done"
          /\ UNCHANGED <<first_build, visited, build_no>>
  /\ UNCHANGED <<builder_vars, disk_vars, reader_vars, ret, env_vars, thread_vars,
                 corpus_tree, domain_folders, pending,
                 average_call>>

NextTraversal ==
  \/ ListRoot \/ OpenFolder \/ YieldFile \/ CloseFolder \/ EndTraversal

SpecTraversal == InitTraversal /\ [][NextTraversal]_vars

\* ------------------------------------------- concurrent get_postings
\* Callers on several threads share one IndexReader over the built index.
\* A step is what a thread does between two points where another thread
\* can run: a read of a file, an assignment to a field of the reader.

\* the reader's one long-lived handle, used by every call
OpenShared(t) == "_postings_file_handle"

\* `with open(self.postings_path, ...) as f`: a file object of the call's own
OpenPostings(t) == t

\* get_postings(term) is entered; _load_lexicon tests the cache
ThreadCall ==
  /\ pc = "done"
  /\ \E t \in Tids, term \in QueryTerms :
       /\ threads[t].pc = "idle"
       /\ threads' = [threads EXCEPT ![t] =
            IF IsCached(lexicon_cache)
            THEN [IdleThread EXCEPT !.pc = "lookup", !.term = term,
                                    !.lexicon = lexicon_cache.value]
            ELSE [IdleThread EXCEPT !.pc = "load", !.term = term]]
  /\ UNCHANGED <<builder_vars, disk_vars, reader_vars, ret, env_vars, walk_vars,
                 cursors,
                 average_call>>

\* _load_lexicon reads lexicon.jsonl into its local dict
ThreadLoadLexicon ==
  /\ \E t \in Tids :
       /\ threads[t].pc = "load"
       /\ threads' = [threads EXCEPT ![t].pc = "store",
                                     ![t].lexicon = LexiconOfLines(lexicon_file)]
  /\ file_loads' = [file_loads EXCEPT !["lexicon.jsonl"] = @ + 1]
  /\ UNCHANGED <<builder_vars, disk_vars, ret, env_vars, walk_vars, cursors,
                 lexicon_cache, reader_doc_lookup, reader_doc_lengths,
                 reader_num_documents,
                 average_call>>

\* self._lexicon_cache = lexicon
ThreadStoreLexicon ==
  /\ \E t \in Tids :
       /\ threads[t].pc = "store"
       /\ lexicon_cache' = Loaded(threads[t].lexicon)
       /\ threads' = [threads EXCEPT ![t].pc = "lookup"]
  /\ UNCHANGED <<builder_vars, disk_vars, ret, env_vars, walk_vars, cursors,
                 reader_doc_lookup, reader_doc_lengths, reader_num_documents,
                 file_loads,
                 average_call>>

\* the term is looked up; without an entry the call returns [], else the
\* postings file is opened and f.seek(entry.offset) positions it
ThreadSeek ==
  /\ \E t \in Tids :
       /\ threads[t].pc = "lookup"
       /\ IF threads[t].term \notin DOMAIN threads[t].lexicon
          THEN /\ threads' = [threads EXCEPT ![t].pc = "return", ![t].result = <<>>]
               /\ UNCHANGED cursors
          ELSE LET f == OpenPostings(t)
               IN /\ threads' = [threads EXCEPT ![t].pc = "read", ![t].handle = f]
                  /\ cursors' = [cursors EXCEPT ![f] =
                                   threads[t].lexicon[threads[t].term].offset]
  /\ UNCHANGED <<builder_vars, disk_vars, reader_vars, ret, env_vars, walk_vars, average_call>>

\* f.readline() from where the file object is, rstrip, json.loads
ThreadReadLine ==
  /\ \E t \in Tids :
       /\ threads[t].pc = "read"
       /\ LET f == threads[t].handle
              line == ReadLine(postings_file, cursors[f])
          IN /\ cursors' = [cursors EXCEPT ![f] = @ + Len(line)]
             /\ threads' = [threads EXCEPT ![t].pc = "return",
                                           ![t].result = JsonLoads(RStrip(line))]
  /\ UNCHANGED <<builder_vars, disk_vars, reader_vars, ret, env_vars, walk_vars, average_call>>

\* the `with` block closes the file object and the call returns
ThreadReturn ==
  /\ \E t \in Tids :
       /\ threads[t].pc = "return"
       /\ threads' = [threads EXCEPT ![t] = IdleThread]
       /\ cursors' = IF threads[t].handle = "" THEN cursors
                     ELSE [cursors EXCEPT ![threads[t].handle] = 0]
  /\ UNCHANGED <<builder_vars, disk_vars, reader_vars, ret, env_vars, walk_vars, average_call>>

NextReaders ==
  \/ Mkdir \/ CorpusRootUnreadable
  \/ SkipUnloadable \/ CrashUndecodable \/ CrashMissingUrl \/ SkipDuplicate
  \/ IndexDocument
  \/ BeginWriteIndex \/ WriteTerm \/ EndWriteIndex
  \/ WriteDocLookup \/ WriteDocLengths \/ WriteStats
  \/ ThreadCall \/ ThreadLoadLexicon \/ ThreadStoreLexicon
  \/ ThreadSeek \/ ThreadReadLine \/ ThreadReturn

SpecReaders == Init /\ [][NextReaders]_vars

\* ------------------------------------------------------------- _average
\* IndexBuilder._average on its own, over every short list of positions
MaxPositions == 3
MaxPosition == 4

\* the position lists: positions count from 1
PositionLists == UNION {[1..n -> 1..MaxPosition] : n \in 0..MaxPositions}

InitAverage ==
  /\ InitBuild /\ IdleWalk /\ IdleThreads
  /\ average_call \in {[NoAverage EXCEPT !.values = values] :
                         values \in PositionLists}

\* self._average(values) returns
CallAverage ==
  /\ ~average_call.returned
  /\ average_call' = [average_call EXCEPT !.returned = TRUE,
                                          !.result = Average(average_call.values)]
  /\ UNCHANGED <<builder_vars, disk_vars, reader_vars, ret, env_vars, walk_vars,
                 thread_vars>>

NextAverage == CallAverage

SpecAverage == InitAverage /\ [][NextAverage]_vars

\* ================================================================ claims
\* what the builder holds in memory, against which the reader and the
\* engine are judged
BuiltDocIds(term) == IF term \in DOMAIN postings THEN DocIds(postings[term]) ELSE {}

\* the intersection, over the terms of a non-empty query, of the doc_id sets
\* of the postings built for each term
Intersection(query_terms) ==
  {d \in BuiltDocIds(query_terms[1]) :
     \A i \in 1..Len(query_terms) : d \in BuiltDocIds(query_terms[i])}

InLexicon(term) == \E i \in 1..Len(lexicon_file) : lexicon_file[i].term = term
LexiconEntry(term) ==
  lexicon_file[CHOOSE i \in 1..Len(lexicon_file) : lexicon_file[i].term = term]

ResultIds(results) == {results[i].doc_id : i \in 1..Len(results)}

\* C1: for a non-empty query, when top_k is at least the size of the
\* intersection, the doc_ids returned by search are exactly the intersection
\* of the query terms' posting doc_id sets, and the result is empty when a
\* query term is absent from the lexicon.
C1_BooleanAnd ==
  (pc = "done" /\ ret.op = "search" /\ ret.query # <<>>) =>
    /\ (\E i \in 1..Len(ret.query) : ~InLexicon(ret.query[i])) => ret.results = <<>>
    /\ ret.top_k >= Cardinality(Intersection(ret.query)) =>
         ResultIds(ret.results) = Intersection(ret.query)

\* C2: search(q, k) returns at most max(k, 0) results, for negative k too.
C2_TopKBound ==
  ret.op = "search" => Len(ret.results) <= Max(ret.top_k, 0)

\* the score _score_documents computes for a candidate document
CandidateScore(id, query_terms) ==
  ScoreOf(id, get_doc_length(id), TermPostings(query_terms),
          IdfsOfTerms(DictKeys(query_terms)), query_terms)

\* C3: the results are in non-increasing score order, and no candidate of
\* the intersection that was left out scores strictly more than a returned
\* result.
C3_ScoreOrder ==
  (pc = "done" /\ ret.op = "search" /\ ret.results # <<>>) =>
    /\ \A i \in 1..(Len(ret.results) - 1) :
         ret.results[i].score >= ret.results[i + 1].score
    /\ \A d \in Intersection(ret.query) \ ResultIds(ret.results) :
         \A i \in 1..Len(ret.results) :
           CandidateScore(d, ret.query) <= ret.results[i].score

Ascending(ps) == \A i \in 1..(Len(ps) - 1) : ps[i].doc_id < ps[i + 1].doc_id

\* C4: for a term of the lexicon, get_postings returns exactly the postings
\* accumulated for it during build, in ascending doc_id order, reading
\* exactly the characters [offset, offset + length) of the postings storage,
\* and the lexicon's doc_freq is the number of postings returned.
C4_RoundTrip ==
  (pc = "done" /\ ret.op = "get_postings" /\ InLexicon(ret.term)) =>
    LET entry == LexiconEntry(ret.term)
    IN /\ ret.term \in DOMAIN postings
       /\ ret.postings = postings[ret.term]
       /\ Ascending(ret.postings)
       /\ ret.read_from = entry.offset
       /\ ret.read_len = entry.length
       /\ entry.doc_freq = Len(ret.postings)

\* a second term's block (not at offset 0) with two postings was read back
C4_Witness ==
  /\ pc = "done" /\ ret.op = "get_postings" /\ InLexicon(ret.term)
  /\ ret.read_from > 0 /\ Len(ret.postings) >= 2

\* the iteration of build's loop that has just loaded a document payload
LoadedDoc == pc = "iter" /\ files_processed' = files_processed + 1
             /\ payload'.kind = "doc"

\* C5: a document whose URL was already seen consumes no doc_id and adds no
\* posting, length or lookup entry; the first document of a URL is the one
\* indexed and its entries are never replaced; no URL has two doc_ids; and
\* num_documents of the summary counts each URL once.
C5_DuplicateSuppression ==
  /\ [][(LoadedDoc /\ payload'.url \in DOMAIN doc_seen_urls) =>
          UNCHANGED <<doc_id, doc_lookup, doc_lengths, doc_seen_urls, postings>>]_vars
  /\ [][(LoadedDoc /\ payload'.url \notin DOMAIN doc_seen_urls) =>
          /\ doc_id \in DOMAIN doc_lookup' /\ doc_lookup'[doc_id] = payload'.url
          /\ postings' = AppendPostings(postings, parse(payload'.html).keys,
                                        parse(payload'.html).stats, doc_id)]_vars
  /\ [][\A d \in DOMAIN doc_lookup :
          /\ d \in DOMAIN doc_lookup' /\ doc_lookup'[d] = doc_lookup[d]
          /\ d \in DOMAIN doc_lengths' /\ doc_lengths'[d] = doc_lengths[d]]_vars
  /\ [](\A d1, d2 \in DOMAIN doc_lookup :
          doc_lookup[d1] = doc_lookup[d2] => d1 = d2)
  /\ [](pc = "done" =>
          stats_file.num_documents =
            Cardinality({doc_lookup[d] : d \in DOMAIN doc_lookup}))

\* two documents are indexed and the file just visited repeats the URL of
\* the first one
C5_Witness ==
  /\ pc = "iter" /\ doc_id = 2 /\ files_skipped = 1 /\ payload.kind = "doc"
  /\ payload.url \in DOMAIN doc_seen_urls /\ doc_seen_urls[payload.url] = 0

\* the worked corpus: Doc0 then Doc1, under two proper URLs
WorkedPostings ==
  AppendPostings(
    AppendPostings(EmptyDict, parse(Doc0Html).keys, parse(Doc0Html).stats, 0),
    parse(Doc1Html).keys, parse(Doc1Html).stats, 1)

WorkedIndex ==
  /\ pc = "done" /\ DOMAIN doc_lookup = {0, 1}
  /\ doc_lookup[0] # "" /\ doc_lookup[1] # ""
  /\ postings = WorkedPostings

WorkedCatQuery ==
  WorkedIndex /\ ret.op = "search" /\ ret.query = <<"cat">> /\ ret.top_k >= 2

ScoreIn(results, id) ==
  results[CHOOSE i \in 1..Len(results) : results[i].doc_id = id].score

\* C6 as stated: on the worked corpus search("cat") returns both documents
\* and Doc0 scores strictly higher than Doc1.
C6_Doc0ScoresHigher ==
  WorkedCatQuery =>
    /\ ResultIds(ret.results) = {0, 1} /\ Len(ret.results) = 2
    /\ ScoreIn(ret.results, 0) > ScoreIn(ret.results, 1)

\* C6: on the worked corpus search("cat") returns both documents, and both
\* score 0.0, because "cat" is in both documents and idf = ln(2/2) = 0.
C6_WorkedRanking ==
  WorkedCatQuery =>
    /\ ResultIds(ret.results) = {0, 1} /\ Len(ret.results) = 2
    /\ ScoreIn(ret.results, 0) = 0 /\ ScoreIn(ret.results, 1) = 0

C6_Witness == WorkedCatQuery /\ Len(ret.results) = 2

\* the number of times a term occurs in the visible text of a document
RECURSIVE Occurrences(_, _)
Occurrences(term, nodes) ==
  IF nodes = <<>> THEN 0
  ELSE (IF ParentName(Head(nodes)) \in {"script", "style", "noscript"} THEN 0
        ELSE Cardinality({i \in 1..Len(Head(nodes).text) : Head(nodes).text[i] = term}))
       + Occurrences(term, Tail(nodes))

\* the posting of a term for a document has these weighted_tf (in quarters)
\* and raw_tf
HasPosting(post, term, id, weighted_tf, raw_tf) ==
  /\ term \in DOMAIN post
  /\ \E i \in 1..Len(post[term]) :
       /\ post[term][i].doc_id = id
       /\ post[term][i].weighted_tf = weighted_tf
       /\ post[term][i].raw_tf = raw_tf

\* C7: indexing Doc0 gives cat raw_tf=1 weighted_tf=5 and dog raw_tf=2
\* weighted_tf=2, indexing Doc1 gives cat raw_tf=2 weighted_tf=2 and dog
\* raw_tf=1 weighted_tf=1, and the raw_tf of every posting is the number of
\* occurrences of the term in the document.
C7_WorkedPostings ==
  [][(pc = "iter" /\ doc_id' = doc_id + 1) =>
       /\ payload'.html = Doc0Html =>
            /\ HasPosting(postings', "cat", doc_id, 20, 1)
            /\ HasPosting(postings', "dog", doc_id, 8, 2)
       /\ payload'.html = Doc1Html =>
            /\ HasPosting(postings', "cat", doc_id, 8, 2)
            /\ HasPosting(postings', "dog", doc_id, 4, 1)
       /\ \A term \in DOMAIN postings' :
            \A i \in 1..Len(postings'[term]) :
              postings'[term][i].doc_id = doc_id =>
                postings'[term][i].raw_tf = Occurrences(term, payload'.html)]_vars

\* C8: search returns the same ordered results, ties included, when it is
\* called again with the same query and top_k on the unchanged index, on the
\* same reader (its caches now loaded) or on a fresh one.
C8_Idempotent ==
  (pc = "done" /\ ret.op = "search") =>
    search(ret.query, ret.top_k) = ret.results

\* a search on a fresh reader has returned two results with equal scores,
\* and the reader's caches are now loaded
C8_Witness ==
  /\ pc = "done" /\ ret.op = "search" /\ Len(ret.results) >= 2
  /\ ret.results[1].score = ret.results[2].score
  /\ reader_doc_lengths.loaded

LexiconDocFreq(term) == IF InLexicon(term) THEN LexiconEntry(term).doc_freq ELSE 0

\* C9: compute_idf(t) does not raise; it is 0.0 when the lexicon's doc_freq
\* of t is 0 and ln(N / df) otherwise, N being the number of indexed
\* documents.
C9_Idf ==
  (pc = "done" /\ ret.op = "compute_idf") =>
    LET df == LexiconDocFreq(ret.term)
        N == Cardinality(DOMAIN doc_lookup)
    IN /\ ~ret.raised
       /\ df = 0 => ret.value = 0
       /\ df > 0 => ret.value = Ln(N, df)

\* compute_idf was called for a term no indexed document contains
C9_Witness ==
  /\ pc = "done" /\ ret.op = "compute_idf" /\ ~InLexicon(ret.term)
  /\ Cardinality(DOMAIN doc_lookup) >= 1

DenseRange(keys) == keys = 0..(Cardinality(keys) - 1)
FileKeys(file) == {IntOfKey(file[i][1]) : i \in 1..Len(file)}

\* C10: the doc_ids assigned are exactly 0 .. num_documents - 1, the next
\* doc_id during the traversal being the number of documents indexed so
\* far, and doc_lookup and doc_lengths (in memory and as written) have
\* exactly these keys.
C10_DenseDocIds ==
  /\ DenseRange(DOMAIN doc_lookup)
  /\ DOMAIN doc_lengths = DOMAIN doc_lookup
  /\ pc # "done" => doc_id = Cardinality(DOMAIN doc_lookup)
  /\ pc = "done" =>
       /\ stats_file.num_documents = Cardinality(DOMAIN doc_lookup)
       /\ FileKeys(doc_lookup_file) = 0..(stats_file.num_documents - 1)
       /\ FileKeys(doc_lengths_file) = 0..(stats_file.num_documents - 1)

\* a build that skipped a file and indexed two documents has written both
\* dicts
C10_Witness ==
  /\ pc = "write_stats" /\ doc_id = 2 /\ files_skipped >= 1
  /\ Len(doc_lookup_file) = 2 /\ Len(doc_lengths_file) = 2

\* the postings block the lexicon record points at, as stored
BlockOf(entry) ==
  JsonLoads(SubSeq(postings_file, entry.offset + 1, entry.offset + entry.length - 1))

\* C11: within each term's stored block the postings are strictly ascending
\* by doc_id (so no document occurs twice in a block), and every doc_id of
\* a block is a key of doc_lookup, in memory and, once written, in the file.
C11_BlocksAscending ==
  [](\A i \in 1..Len(lexicon_file) :
       LET block == BlockOf(lexicon_file[i])
       IN /\ Ascending(block)
          /\ DocIds(block) \subseteq DOMAIN doc_lookup
          /\ pc = "done" => DocIds(block) \subseteq FileKeys(doc_lookup_file))

\* two blocks are stored, the second with postings of two documents, and
\* doc_lookup.json is written
C11_Witness ==
  /\ pc = "done" /\ Len(lexicon_file) >= 2
  /\ Len(BlockOf(lexicon_file[2])) >= 2

\* the iteration of build's loop that has just met a file that is unreadable
\* or whose payload is malformed
LoadedMalformed ==
  /\ pc = "iter" /\ files_processed' = files_processed + 1
  /\ payload'.kind \in {"unreadable", "undecodable", "nourl"}

\* C12: a file that is unreadable or whose payload is malformed (not JSON,
\* not decodable, or JSON without a url) is skipped and counted as skipped;
\* the traversal goes on with the next file and nothing of the index changes.
C12_MalformedSkipped ==
  [][LoadedMalformed =>
       /\ pc' = "iter"
       /\ files_skipped' = files_skipped + 1
       /\ UNCHANGED <<doc_id, doc_lookup, doc_lengths, doc_seen_urls, postings>>]_vars

\* C13: a search whose query has no terms, or has a term without postings,
\* returns the empty result and does not raise; with no terms it returns
\* before any postings lookup and leaves the reader as it was.
C13_EmptyQueries ==
  /\ [](( /\ pc = "done" /\ ret.op = "search"
          /\ \/ ret.query = <<>>
             \/ \E i \in 1..Len(ret.query) : BuiltDocIds(ret.query[i]) = {} ) =>
          /\ ret.results = <<>> /\ ~ret.raised
          /\ ret.query = <<>> => ret.lookups = 0)
  /\ [][(ret.op = "none" /\ ret'.op = "search" /\ ret'.query = <<>>) =>
          UNCHANGED reader_vars]_vars

\* a two-term search on an index with documents has returned nothing
\* because its second term has no postings, after two lookups
C13_Witness ==
  /\ pc = "done" /\ ret.op = "search" /\ Len(ret.query) = 2
  /\ BuiltDocIds(ret.query[1]) # {} /\ BuiltDocIds(ret.query[2]) = {}
  /\ ret.results = <<>> /\ ret.lookups = 2

\* C14: a missing output directory and an unreadable corpus root are fatal:
\* build fails on them and writes no index artifact; nothing else makes
\* build fail.
C14_FatalErrors ==
  /\ [][(pc = "start" /\ ~output_dir_exists) =>
          (pc' = "crashed" /\ UNCHANGED disk_vars)]_vars
  /\ [](corpus_root_error => (pc # "done" /\ write_log = <<>>))
  /\ [](pc = "crashed" => (corpus_root_error \/ ~output_dir_exists))

\* C15: two builds over the same corpus are given the files in the same
\* order, whatever order the file system enumerates directory entries in,
\* so that every URL gets the same doc_id and is indexed from the same file
\* in both builds.
C15_Reproducible ==
  walk_pc = "done" =>
    /\ visited = first_build
    /\ SeenUrls(visited, corpus_tree) = SeenUrls(first_build, corpus_tree)

\* the writes of write_log, without the opens
Writes == SelectSeq(write_log, LAMBDA e : e \in {"postings.jsonl", "lexicon.jsonl",
                      "doc_lookup.json", "doc_lengths.json", "stats.json"})

\* the place of an artifact in the order the claim gives
SpecRank(file) ==
  CASE file = "postings.jsonl" -> 1 [] file = "lexicon.jsonl" -> 2
    [] file = "doc_lookup.json" -> 3 [] file = "doc_lengths.json" -> 4
    [] file = "stats.json" -> 5

\* the same with the postings storage and the lexicon as one stage
StageRank(file) == IF file = "postings.jsonl" THEN 2 ELSE SpecRank(file)

\* C16 as stated: the artifacts are written in the order postings storage,
\* lexicon, document lookup, document lengths, statistics: no lexicon record
\* is written before the postings storage is complete and the statistics
\* are written last.
C16_WriteOrder ==
  \A w \in {Writes} :
    \A i, j \in 1..Len(w) : i < j => SpecRank(w[i]) <= SpecRank(w[j])

\* C16: build writes the postings storage and the lexicon term by term,
\* each term's postings block immediately followed by the term's lexicon
\* record; when both are complete it writes the document lookup, then the
\* document lengths, and the statistics last.
C16_TermByTermOrder ==
  \A w \in {Writes} :
    /\ \A i, j \in 1..Len(w) : i < j => StageRank(w[i]) <= StageRank(w[j])
    /\ \A i \in 1..Len(w) :
         /\ w[i] = "lexicon.jsonl" => (i > 1 /\ w[i - 1] = "postings.jsonl")
         /\ w[i] = "postings.jsonl" => (i < Len(w) /\ w[i + 1] = "lexicon.jsonl")
         /\ w[i] \in {"doc_lookup.json", "doc_lengths.json", "stats.json"} =>
              (\A j \in 1..Len(w) : j # i => w[j] # w[i])
    /\ pc = "done" => w[Len(w)] = "stats.json"

\* a build has written the blocks and records of two terms and then the
\* three metadata artifacts
C16_Witness ==
  /\ pc = "done" /\ Len(lexicon_file) >= 2 /\ Len(Writes) >= 7

\* a step that is a call of a reader or engine operation
ReaderCall == ret.op = "none" /\ ret'.op # "none"

C18_ConcurrentReads ==
  /\ \A t \in Tids :
       threads[t].pc = "return" =>
         threads[t].result = get_postings(threads[t].term).postings
  /\ \A t, u \in Tids :
       (t # u /\ threads[t].pc = "read" /\ threads[u].pc = "read") =>
         threads[t].handle # threads[u].handle

\* one caller has read its block and is about to return it while the
\* other, after its own seek to another block, has not read yet
C18_Witness ==
  /\ threads["t1"].pc = "return" /\ Len(threads["t1"].result) >= 1
  /\ threads["t2"].pc = "read" /\ threads["t2"].term # threads["t1"].term
  /\ cursors["t2"] > 0

\* the fraction is the arithmetic mean of the values
IsMeanOf(fraction, values) ==
  /\ fraction[2] > 0
  /\ fraction[1] * Len(values) = SumSeq(values) * fraction[2]

TermOrders(query_terms) ==
  LET n == Len(query_terms)
  IN {[i \in 1..n |-> query_terms[order[i]]] :
        order \in {o \in [1..n -> 1..n] : Range(o) = 1..n}}

C21_DuplicatesNotCounted ==
  /\ [][(LoadedDoc /\ payload'.url \in DOMAIN doc_seen_urls) =>
          files_skipped' = files_skipped]_vars
  /\ [][(pc = "iter" /\ files_skipped' = files_skipped + 1) =>
          payload'.kind = "unreadable"]_vars

\* how often the term occurs in the query
Multiplicity(term, query_terms) ==
  Cardinality({i \in 1..Len(query_terms) : query_terms[i] = term})

\* the sum over the distinct terms of multiplicity times the term's tf-idf
\* component for the document
RECURSIVE ComponentSum(_, _, _, _, _)
ComponentSum(id, term_postings, term_idfs, distinct, query_terms) ==
  IF distinct = <<>> THEN 0
  ELSE Multiplicity(Head(distinct), query_terms)
         * ScoreOf(id, get_doc_length(id), term_postings, term_idfs,
                   <<Head(distinct)>>)
       + ComponentSum(id, term_postings, term_idfs, Tail(distinct), query_terms)

====
